---------------------------- MODULE Spec2Model ----------------------------
(***************************************************************************)
(* A model of ChemEx: the parameter merge (parameters/helper.py), the CEST *)
(* data container (containers/cest.py), the CPMG phase-cycle selection     *)
(* (experiments/cpmg_hn_dq_zq.py) and the spin-system identity model       *)
(* (nmr/spin_system.py).  Each component has its own specification over    *)
(* the shared variables; a component that a specification does not drive   *)
(* stays at its idle value.                                                *)
(***************************************************************************)
EXTENDS Integers, Sequences, FiniteSets, TLC

VARIABLES
    params_list,    \* merge: the ordered list of parameter sets passed in
    merged,         \* merge: <<the returned parameter set>>, <<>> before the call
    points,         \* CestData.points: the records (offsets, intensities, errors)
    refs,           \* CestData.refs: the reference flag of each point
    mask,           \* CestData.mask: TRUE where the point is used in the fit
    filter_offsets, \* CestData._filter_offsets: the (offset, bandwidth) windows
    out,            \* the last call on the container and what it returned
    ncyc,           \* CPMG: the number of cycles _get_phases is called with
    time_t2,        \* CPMG: PulseSeq.time_t2 in seconds, as <<numerator, denominator>>
    phases,         \* CPMG: <<what _get_phases selected and returned>>, <<>> before
    label,          \* spin system: the textual label SpinSystem is built from
    spin_system,    \* spin system: the SpinSystem object built from label
    ret,            \* spin system: the last call on spin_system and its result
    cache,          \* PulseSeq.calculate: the entries of its lru_cache, oldest first
    called,         \* PulseSeq.calculate: <<the last call and what it returned>>
    minimizer,      \* fit: the routine, where it is, and minimizer.result.params
    reporter,       \* fit: the Reporter (last_chisqr and the table lines printed)
    heap,           \* ensemble: the data point objects, by identity
    dataset,        \* ensemble: the original data, a list of point objects
    replicates      \* ensemble: the datasets and parameters of the replicates

mergeVars == <<params_list, merged>>
cestVars == <<points, refs, mask, filter_offsets, out>>
cpmgVars == <<ncyc, time_t2, phases>>
spinVars == <<label, spin_system, ret>>
cacheVars == <<cache, called>>
fitVars == <<minimizer, reporter>>
ensembleVars == <<heap, dataset, replicates>>
vars == <<mergeVars, cestVars, cpmgVars, spinVars, cacheVars, fitVars,
          ensembleVars>>

\* What each component leaves alone.
laterVars == <<cacheVars, fitVars, ensembleVars>>
notMerge == <<cestVars, cpmgVars, spinVars, laterVars>>
notCest == <<mergeVars, cpmgVars, spinVars, laterVars>>
notCpmg == <<mergeVars, cestVars, spinVars, laterVars>>
notSpin == <<mergeVars, cestVars, cpmgVars, laterVars>>
earlierVars == <<mergeVars, cestVars, cpmgVars, spinVars>>
notCache == <<earlierVars, fitVars, ensembleVars>>
notFit == <<earlierVars, cacheVars, ensembleVars>>
notEnsemble == <<earlierVars, cacheVars, fitVars>>

Abs(x) == IF x < 0 THEN -x ELSE x
Min(S) == CHOOSE x \in S : \A y \in S : x <= y
Max(S) == CHOOSE x \in S : \A y \in S : x >= y

(***************************************************************************)
(* parameters/helper.py: merge                                             *)
(***************************************************************************)

\* Bound: the longest list of parameter sets passed to merge.
MaxSets == 3

\* The parameter names of the model (physical quantities shared by profiles).
ParNames == {"kex", "pb"}

\* How one parameter set declares a name: not at all, fixed, or varying.
Declared == {"absent", "fixed", "vary"}

\* The lf.Parameter of set k for name n.  owner stands for the identity of
\* the Parameter object: the k-th set of the list owns it.
Parameter(n, k, how) == [name |-> n, vary |-> (how = "vary"), owner |-> k]

\* The parameter set (a dict name -> Parameter) number k declaring d[n] for n.
ParamSet(k, d) ==
    [n \in {m \in ParNames : d[m] # "absent"} |-> Parameter(n, k, d[n])]

\* Every list of at most MaxSets parameter sets.
ParamLists ==
    UNION {{[k \in 1..len |-> ParamSet(k, ds[k])] :
                ds \in [1..len -> [ParNames -> Declared]]} : len \in 0..MaxSets}

\* A plausible slip of the loop body: the vary flag of the stored entry is
\* not consulted, so every later occurrence replaces it.
MergeStepAlwaysReplace(acc, params) ==
    [n \in DOMAIN acc \cup DOMAIN params |->
        IF n \in DOMAIN params THEN params[n] ELSE acc[n]]

\* A plausible slip of the loop body: an entry already present is never replaced.
MergeStepKeepFirst(acc, params) ==
    [n \in DOMAIN acc \cup DOMAIN params |->
        IF n \in DOMAIN acc THEN acc[n] ELSE params[n]]

\* One pass of the outer loop of merge (helper.py:16-20): every (name, param)
\* of params replaces the entry of params_ unless that entry exists and varies.
MergeStep(acc, params) ==
    [n \in DOMAIN acc \cup DOMAIN params |->
        IF n \in DOMAIN params /\ ~(n \in DOMAIN acc /\ acc[n].vary)
        THEN params[n]
        ELSE acc[n]]

RECURSIVE MergeFrom(_, _, _)
MergeFrom(pl, k, acc) ==
    IF k > Len(pl) THEN acc ELSE MergeFrom(pl, k + 1, MergeStep(acc, pl[k]))

\* merge(params_list): params_ starts empty; the result holds its values.
merge(pl) == MergeFrom(pl, 1, <<>>)

MergeIdle == params_list = <<>> /\ merged = <<>>

CestIdle ==
    /\ points = <<>> /\ refs = <<>> /\ mask = <<>>
    /\ filter_offsets = <<>> /\ out = <<>>

CpmgIdle == ncyc = 0 /\ time_t2 = <<1, 1>> /\ phases = <<>>

SpinIdle == label = "" /\ spin_system = <<>> /\ ret = <<>>

CacheIdle == cache = <<>> /\ called = <<>>

MinimizerIdle == minimizer = <<>>

ReporterIdle == reporter = <<>>

FitIdle == MinimizerIdle /\ ReporterIdle

EnsembleIdle == heap = <<>> /\ dataset = <<>> /\ replicates = <<>>

LaterIdle == CacheIdle /\ FitIdle /\ EnsembleIdle

InitMerge ==
    /\ params_list \in ParamLists
    /\ merged = <<>>
    /\ CestIdle /\ CpmgIdle /\ SpinIdle /\ LaterIdle

Merge ==
    /\ merged = <<>>
    /\ merged' = <<merge(params_list)>>
    /\ UNCHANGED <<params_list, notMerge>>

NextMerge == Merge

SpecMerge == InitMerge /\ [][NextMerge]_vars

\* The positions of the list at which name n occurs, and occurs varying.
Occurrences(n) == {k \in 1..Len(params_list) : n \in DOMAIN params_list[k]}
VaryOccurrences(n) == {k \in Occurrences(n) : params_list[k][n].vary}

\* C1: when a name occurs at least once with vary=true, the merged entry for
\* that name is the first occurrence marked vary, whatever the input order.
C1_FirstVaryWins ==
    merged # <<>> =>
        \A n \in ParNames :
            VaryOccurrences(n) # {} =>
                /\ n \in DOMAIN merged[1]
                /\ merged[1][n] = params_list[Min(VaryOccurrences(n))][n]

\* C1 witness: merge has run on a list where a name is fixed in an earlier
\* set and varying in two later ones; the first varying one was returned.
C1_Witness ==
    /\ merged # <<>>
    /\ \E n \in ParNames :
        /\ Cardinality(VaryOccurrences(n)) >= 2
        /\ \E k \in Occurrences(n) : k < Min(VaryOccurrences(n))
        /\ merged[1][n].owner = Min(VaryOccurrences(n))
        /\ merged[1][n].vary

\* C2 as stated: when a name occurs several times and never varies, the
\* merged entry is the first occurrence in list order.
C2_FirstFixedWins ==
    merged # <<>> =>
        \A n \in ParNames :
            (Cardinality(Occurrences(n)) >= 2 /\ VaryOccurrences(n) = {}) =>
                merged[1][n] = params_list[Min(Occurrences(n))][n]

\* C2 amended: when a name occurs several times and never varies, the merged
\* entry is the last occurrence in list order.
C2_LastFixedWins ==
    merged # <<>> =>
        \A n \in ParNames :
            (Cardinality(Occurrences(n)) >= 2 /\ VaryOccurrences(n) = {}) =>
                /\ n \in DOMAIN merged[1]
                /\ merged[1][n] = params_list[Max(Occurrences(n))][n]

\* C2 witness: merge has run on a list where a name occurs twice, never
\* varying, and the later occurrence was returned.
C2_Witness ==
    /\ merged # <<>>
    /\ \E n \in ParNames :
        /\ Cardinality(Occurrences(n)) >= 2
        /\ VaryOccurrences(n) = {}
        /\ merged[1][n].owner = Max(Occurrences(n))
        /\ merged[1][n].owner # Min(Occurrences(n))

(***************************************************************************)
(* containers/cest.py: CestData and CestProfile                            *)
(***************************************************************************)

\* Bound: the largest number of points of a profile file.
MaxPoints == 3

\* |offset| >= RefOffset (1.0e4 Hz) marks an unirradiated reference point.
RefOffset == 10000

\* The measured points a file may hold: (offset in Hz, intensity, error).
PointValues ==
    { [offsets |-> 0, intensities |-> 3, errors |-> 1],
      [offsets |-> 50, intensities |-> 4, errors |-> 2],
      [offsets |-> 100, intensities |-> 5, errors |-> 1],
      [offsets |-> 10000, intensities |-> 9, errors |-> 2],
      [offsets |-> -12000, intensities |-> 8, errors |-> 1] }

PointLists == UNION {[1..n -> PointValues] : n \in 1..MaxPoints}

\* The configured filter windows: the schema's default [[0.0, 0.0]] and a
\* list of two (offset, bandwidth) windows.
FilterOffsetsValues == { <<<<0, 0>>>>, <<<<0, 100>>, <<60, 20>>>> }

\* The configured filter_planes (0-based indices, possibly out of range).
FilterPlanesValues == { {}, {1, 7} }

\* The chemical-shift offsets and DANTE sweep widths filter is called with
\* (<<>> stands for sw_dante = None).
CsOffsetValues == {0, 50}
SwDanteValues == { <<>>, <<100>> }

\* The values np.random.randn returns in the model.
NoiseDraws == {-1, 1}

\* points[mask]: the points whose flag is set, in order.
RECURSIVE Select(_, _)
Select(xs, flags) ==
    IF xs = <<>> THEN <<>>
    ELSE (IF Head(flags) THEN <<Head(xs)>> ELSE <<>>)
             \o Select(Tail(xs), Tail(flags))

\* indexes[flags]: the (1-based) positions whose flag is set, ascending.
RECURSIVE IndexesFrom(_, _)
IndexesFrom(flags, k) ==
    IF k > Len(flags) THEN <<>>
    ELSE (IF flags[k] THEN <<k>> ELSE <<>>) \o IndexesFrom(flags, k + 1)

Indexes(flags) == IndexesFrom(flags, 1)

Count(flags) == Cardinality({k \in 1..Len(flags) : flags[k]})

\* CestData.from_file (cest.py:236-251): refs by the offset threshold, mask
\* all True except the in-range filter_planes and, if asked, the references.
from_file(pts, f_offsets, filter_planes, filter_ref_planes) ==
    LET rf == [k \in 1..Len(pts) |-> Abs(pts[k].offsets) >= RefOffset]
        planes_to_filter ==
            {index \in filter_planes : 0 <= index /\ index < Len(pts)}
    IN  [points |-> pts,
         refs |-> rf,
         mask |-> [k \in 1..Len(pts) |->
                      /\ (k - 1) \notin planes_to_filter
                      /\ ~(filter_ref_planes /\ rf[k])],
         filter_offsets |-> f_offsets]

\* A plausible slip of the window test: the edge of the window is excluded too.
MaskFilterClosed(offset, cs_offset, window, sw_dante) ==
    LET x == (offset - cs_offset) - window[1]
        twice == IF sw_dante = <<>> THEN 2 * x
                 ELSE ((2 * x + sw_dante[1]) % (2 * sw_dante[1])) - sw_dante[1]
    IN  Abs(twice) <= window[2]

\* mask_filter of one point for one window (cest.py:257-262).  offsets_ is
\* kept doubled, so that 0.5 * sw_dante and 0.5 * filter_bandwidth are exact:
\* 2 * ((x + sw/2) mod sw - sw/2) = (2x + sw) mod 2sw - sw.
MaskFilter(offset, cs_offset, window, sw_dante) ==
    LET x == (offset - cs_offset) - window[1]
        twice == IF sw_dante = <<>> THEN 2 * x
                 ELSE ((2 * x + sw_dante[1]) % (2 * sw_dante[1])) - sw_dante[1]
    IN  Abs(twice) < window[2]

\* A plausible slip of filter: the mask is assigned from the window test
\* instead of being cleared inside the window.
RECURSIVE FilterFromAssigned(_, _, _, _, _, _)
FilterFromAssigned(pts, msk, windows, w, cs_offset, sw_dante) ==
    IF w > Len(windows) THEN msk
    ELSE FilterFromAssigned(pts,
                    [k \in 1..Len(msk) |->
                        ~MaskFilter(pts[k].offsets, cs_offset,
                                    windows[w], sw_dante)],
                    windows, w + 1, cs_offset, sw_dante)

\* CestData.filter (cest.py:256-263): window after window, the points inside
\* get mask False.
RECURSIVE FilterFrom(_, _, _, _, _, _)
FilterFrom(pts, msk, windows, w, cs_offset, sw_dante) ==
    IF w > Len(windows) THEN msk
    ELSE FilterFrom(pts,
                    [k \in 1..Len(msk) |->
                        msk[k] /\ ~MaskFilter(pts[k].offsets, cs_offset,
                                              windows[w], sw_dante)],
                    windows, w + 1, cs_offset, sw_dante)

\* PulseSeq._calculate of cest_15n_cw.py:100-112 for one offset: the detected
\* signal after the CEST pulse at that offset, or the detected equilibrium
\* magnetization for an unirradiated (reference) offset.  The signal is kept
\* as the term of what it is computed from.
IntstInclusive(offset) ==
    IF Abs(offset) <= RefOffset
    THEN [signal |-> "pulse_is", offset_i |-> offset]
    ELSE [signal |-> "start", offset_i |-> 0]

Intst(offset) ==
    IF Abs(offset) < RefOffset
    THEN [signal |-> "pulse_is", offset_i |-> offset]
    ELSE [signal |-> "start", offset_i |-> 0]

PulseSeqCalculate(offsets) == [k \in 1..Len(offsets) |-> Intst(offsets[k])]

Field(xs, f) == [k \in 1..Len(xs) |-> xs[k][f]]

\* cch.get_scale(intensities, errors, calculated) as called at cest.py:87:
\* the scale is kept as the term of its three arguments.
get_scale(intensities, errors, calculated) ==
    [exp |-> intensities, err |-> errors, calc |-> calculated]

\* A plausible slip of calculate: the scale is fitted on every point, the
\* masked ones included.
CalculateScaleOnAllPoints(pts, msk, offsets) ==
    LET calculated == PulseSeqCalculate(Field(pts, "offsets"))
        scale == get_scale(Field(pts, "intensities"), Field(pts, "errors"),
                           calculated)
        shape == IF offsets = <<>> THEN PulseSeqCalculate(Field(Select(pts, msk), "offsets"))
                 ELSE PulseSeqCalculate(offsets[1])
    IN  [k \in 1..Len(shape) |-> [scale |-> scale, calculated |-> shape[k]]]

\* CestProfile.calculate (cest.py:83-90); offsets is <<>> for None and
\* <<the offsets>> otherwise.  An element stands for scale * calculated.
Calculate(pts, msk, offsets) ==
    LET data == Select(pts, msk)
        calculated == PulseSeqCalculate(Field(data, "offsets"))
        scale == get_scale(Field(data, "intensities"), Field(data, "errors"),
                           calculated)
        shape == IF offsets = <<>> THEN calculated
                 ELSE PulseSeqCalculate(offsets[1])
    IN  [k \in 1..Len(shape) |-> [scale |-> scale, calculated |-> shape[k]]]

\* CestProfile.residuals (cest.py:78-81).  An element stands for
\* (calculated - intensities) / errors.
Residuals(pts, msk) ==
    LET data == Select(pts, msk)
        calc == Calculate(pts, msk, <<>>)
    IN  [k \in 1..Len(data) |->
            [calculated |-> calc[k],
             intensities |-> data[k].intensities,
             errors |-> data[k].errors]]

\* The container as one value (what copy.deepcopy(self) copies).
Self ==
    [points |-> points, refs |-> refs, mask |-> mask,
     filter_offsets |-> filter_offsets]

InitCest ==
    /\ MergeIdle /\ CpmgIdle /\ SpinIdle /\ LaterIdle
    /\ \E pts \in PointLists, fo \in FilterOffsetsValues,
          fp \in FilterPlanesValues, frp \in BOOLEAN :
          LET data == from_file(pts, fo, fp, frp)
          IN  /\ points = data.points
              /\ refs = data.refs
              /\ mask = data.mask
              /\ filter_offsets = data.filter_offsets
    /\ out = <<>>

\* CestProfile.filter -> CestData.filter: the mask is updated in place.
Filter ==
    \E cs_offset \in CsOffsetValues, sw_dante \in SwDanteValues :
        /\ mask' = FilterFrom(points, mask, filter_offsets, 1, cs_offset, sw_dante)
        /\ out' = <<[op |-> "filter", cs_offset |-> cs_offset,
                     sw_dante |-> sw_dante, mask_before |-> mask]>>
        /\ UNCHANGED <<points, refs, filter_offsets, notCest>>

\* CestProfile.residuals(params).
ResidualsCall ==
    /\ out' = <<[op |-> "residuals", value |-> Residuals(points, mask)]>>
    /\ UNCHANGED <<points, refs, mask, filter_offsets, notCest>>

\* CestProfile.print(params) (cest.py:98-109): calculate at the offsets of
\* every point, masked or not.
PrintCall ==
    /\ out' = <<[op |-> "print",
                 value |-> Calculate(points, mask, <<Field(points, "offsets")>>)]>>
    /\ UNCHANGED <<points, refs, mask, filter_offsets, notCest>>

\* CestData.bootstrap (cest.py:271-282) for the draws d1 from pool1 and d2
\* from pool2: the deep copy keeps refs and mask, points is re-indexed.
BootstrapData(d1, d2) ==
    LET bs_indexes == SortSeq(d1 \o d2, LAMBDA a, b : a < b)
    IN  [points |-> [k \in 1..Len(bs_indexes) |-> points[bs_indexes[k]]],
         refs |-> refs,
         mask |-> mask,
         filter_offsets |-> filter_offsets]

\* np.random.choice(pool, pool.size): every sequence of pool.size elements of
\* the pool, drawn with replacement.
Choices(pool) ==
    {[k \in 1..Len(pool) |-> pool[c[k]]] : c \in [1..Len(pool) -> 1..Len(pool)]}

\* CestProfile.bootstrap -> CestData.bootstrap.
Bootstrap ==
    LET pool1 == Indexes([k \in 1..Len(refs) |-> refs[k] /\ mask[k]])
        pool2 == Indexes([k \in 1..Len(refs) |-> ~refs[k] /\ mask[k]])
    IN  \E d1 \in Choices(pool1), d2 \in Choices(pool2) :
            /\ out' = <<[op |-> "bootstrap", data |-> BootstrapData(d1, d2)]>>
            /\ UNCHANGED <<points, refs, mask, filter_offsets, notCest>>

\* intensities_ref + noise under numpy's broadcasting, then the assignment to
\* data.points["intensities"] (cest.py:268): <<the sums>> when the lengths
\* agree or intensities_ref has one element, which is then added to every
\* point; <<>> when numpy raises ValueError.
AddNoise(intensities_ref, noise) ==
    IF Len(intensities_ref) = Len(noise)
    THEN <<[k \in 1..Len(noise) |->
              [ref |-> intensities_ref[k], noise |-> noise[k]]]>>
    ELSE IF Len(intensities_ref) = 1
    THEN <<[k \in 1..Len(noise) |->
              [ref |-> intensities_ref[1], noise |-> noise[k]]]>>
    ELSE <<>>

\* CestProfile.monte_carlo -> CestData.monte_carlo (cest.py:128-132, 265-269)
\* for the normal draws z: the replicate, or <<>> when the call raises.
MonteCarloData(z) ==
    LET intensities_ref == Calculate(points, mask, <<>>)
        noise == [k \in 1..Len(points) |-> z[k] * points[k].errors]
        summed == AddNoise(intensities_ref, noise)
    IN  IF summed = <<>> THEN <<>>
        ELSE <<[points |-> [k \in 1..Len(points) |->
                              [offsets |-> points[k].offsets,
                               intensities |-> summed[1][k],
                               errors |-> points[k].errors]],
                refs |-> refs,
                mask |-> mask,
                filter_offsets |-> filter_offsets]>>

MonteCarlo ==
    \E z \in [1..Len(points) -> NoiseDraws] :
        /\ out' = <<[op |-> "monte_carlo", data |-> MonteCarloData(z)]>>
        /\ UNCHANGED <<points, refs, mask, filter_offsets, notCest>>

NextCest == Filter \/ ResidualsCall \/ PrintCall \/ Bootstrap \/ MonteCarlo

SpecCest == InitCest /\ [][NextCest]_vars

\* What the last call was ("none" before any call).
LastOp == IF out = <<>> THEN "none" ELSE out[1].op

IsRefPoint(pt) == Abs(pt.offsets) >= RefOffset

\* C3: bootstrap resampling of a profile with N non-reference and M > 0
\* reference points yields at least one reference point and exactly N + M
\* points, for every random draw.
C3_BootstrapKeepsCounts ==
    (LastOp = "bootstrap" /\ \E k \in 1..Len(points) : IsRefPoint(points[k])) =>
        LET replicate == out[1].data
        IN  /\ Len(replicate.points) = Len(points)
            /\ \E k \in 1..Len(replicate.points) : IsRefPoint(replicate.points[k])

\* C4: Monte Carlo resampling, with any validity mask, returns a replicate
\* whose errors are the measured errors and whose intensity at every point is
\* the reference-calculated value of that point plus noise.
C4_MonteCarloKeepsErrors ==
    LastOp = "monte_carlo" =>
        /\ out[1].data # <<>>
        /\ LET replicate == out[1].data[1]
               reference == Calculate(points, mask, <<Field(points, "offsets")>>)
           IN  /\ Len(replicate.points) = Len(points)
               /\ \A k \in 1..Len(points) :
                    /\ replicate.points[k].errors = points[k].errors
                    /\ replicate.points[k].intensities.ref = reference[k]
                    /\ \E z \in NoiseDraws :
                         replicate.points[k].intensities.noise
                             = z * points[k].errors

\* pts with the point at position k replaced by the measurement v.
ReplacePoint(pts, k, v) == [pts EXCEPT ![k] = v]

\* C5: the vector returned by residuals has as many elements as there are
\* unmasked points, and the measurement of a masked point changes neither the
\* residual vector nor the scaled curve calculate returns (with offsets=None
\* and with explicit offsets).
C5_MaskedPointsDoNotContribute ==
    /\ LastOp = "residuals" =>
        /\ Len(out[1].value) = Count(mask)
        /\ \A k \in 1..Len(points) : ~mask[k] =>
             \A v \in PointValues :
                 /\ Residuals(ReplacePoint(points, k, v), mask) = out[1].value
                 /\ Field(out[1].value, "calculated")
                        = Calculate(ReplacePoint(points, k, v), mask, <<>>)
    /\ LastOp = "print" =>
        /\ Len(out[1].value) = Len(points)
        /\ \A k \in 1..Len(points) : ~mask[k] =>
             \A v \in PointValues :
                 Calculate(ReplacePoint(points, k, v), mask,
                           <<Field(points, "offsets")>>) = out[1].value

\* C5 witness: residuals has been computed on a profile with a masked and
\* an unmasked point.
C5_Witness ==
    /\ LastOp = "residuals"
    /\ \E k \in 1..Len(points) : ~mask[k]
    /\ Len(out[1].value) >= 1
    /\ Len(out[1].value) < Len(points)

\* Twice the offset of point k relative to cs_offset and to the centre of the
\* window, as the claim states it: unchanged without DANTE, and otherwise
\* the one value congruent to it modulo sw_dante that lies in
\* [-sw_dante/2, sw_dante/2).
TwiceRelative(k, window, cs_offset, sw_dante) ==
    LET twice == 2 * (points[k].offsets - cs_offset - window[1])
    IN  IF sw_dante = <<>> THEN twice
        ELSE CHOOSE y \in (-sw_dante[1])..(sw_dante[1] - 1) :
                 (twice - y) % (2 * sw_dante[1]) = 0

StrictlyInside(k, window, cs_offset, sw_dante) ==
    Abs(TwiceRelative(k, window, cs_offset, sw_dante)) < window[2]

OnEdge(k, window, cs_offset, sw_dante) ==
    Abs(TwiceRelative(k, window, cs_offset, sw_dante)) = window[2]

\* C6: filter excludes a point iff its relative (wrapped) offset is strictly
\* inside a filter window; a point on the edge of a window is not excluded by
\* it, and the default window [0.0, 0.0] excludes nothing.
C6_FilterExcludesStrictlyInside ==
    LastOp = "filter" =>
        LET call == out[1]
            Windows == 1..Len(filter_offsets)
            Inside(k) == \E w \in Windows :
                StrictlyInside(k, filter_offsets[w], call.cs_offset, call.sw_dante)
        IN  /\ \A k \in 1..Len(points) :
                 mask[k] = (call.mask_before[k] /\ ~Inside(k))
            /\ \A k \in 1..Len(points) :
                 (/\ call.mask_before[k]
                  /\ \A w \in Windows :
                       \/ OnEdge(k, filter_offsets[w], call.cs_offset, call.sw_dante)
                       \/ ~StrictlyInside(k, filter_offsets[w], call.cs_offset,
                                          call.sw_dante))
                 => mask[k]
            /\ filter_offsets = <<<<0, 0>>>> => mask = call.mask_before

\* C6 witness: a filter call with a DANTE sweep width left a point on the
\* edge of a window in the fit and excluded a point strictly inside one.
C6_Witness ==
    /\ LastOp = "filter"
    /\ out[1].sw_dante # <<>>
    /\ \E k \in 1..Len(points) :
        /\ mask[k]
        /\ \E w \in 1..Len(filter_offsets) :
            /\ filter_offsets[w][2] > 0
            /\ OnEdge(k, filter_offsets[w], out[1].cs_offset, out[1].sw_dante)
    /\ \E k \in 1..Len(points) :
        /\ out[1].mask_before[k] /\ ~mask[k]
        /\ \E w \in 1..Len(filter_offsets) :
            StrictlyInside(k, filter_offsets[w], out[1].cs_offset, out[1].sw_dante)

(***************************************************************************)
(* experiments/cpmg_hn_dq_zq.py: the phase cycle of the CPMG train         *)
(***************************************************************************)

\* Bound: the largest number of CPMG cycles of a point.
MaxNcyc == 8

\* The constant-time relaxation delays (seconds, as exact fractions).
TimeT2Values ==
    { <<1, 10>>, <<1, 25>>, <<1, 40>>, <<1, 50>>, <<1, 51>>, <<1, 255>>,
      <<2, 101>>, <<2, 509>> }

\* The regime thresholds of _get_phases, in Hz.
NuLow == 51
NuHigh == 255

\* PulseSeq.ncycs_to_nu_cpmgs (cpmg_hn_dq_zq.py:157-160) for one ncyc > 0:
\* ncyc / time_t2, as the exact fraction <<numerator, denominator>>.
ncycs_to_nu_cpmgs(n, t2) == <<n * t2[2], t2[1]>>

\* nu < c for a fraction nu with a positive denominator.
Below(nu, c) == nu[1] < c * nu[2]

\* A plausible slip of the lookup: the indices are wrapped but not reversed.
TakeWrapped(cp_phases, n) ==
    [j \in 1..(2 * n) |-> cp_phases[((j - 1) % Len(cp_phases)) + 1]]

\* np.take(cp_phases, np.flip(np.arange(2 * ncyc)), mode="wrap"): element j
\* (from 1) is cp_phases at 0-based index (2 * ncyc - j) modulo its length.
TakeFlipped(cp_phases, n) ==
    [j \in 1..(2 * n) |-> cp_phases[((2 * n - j) % Len(cp_phases)) + 1]]

\* A plausible slip of the thresholds: <= where the code has <.
GetPhasesInclusive(n, t2) ==
    LET nu_cpmg == ncycs_to_nu_cpmgs(n, t2)
        AtOrBelow(c) == nu_cpmg[1] <= c * nu_cpmg[2]
        cp == IF AtOrBelow(NuLow)
              THEN <<<<0, 1, 0, 1>>, <<1, 0, 1, 0>>>>
              ELSE IF AtOrBelow(NuHigh)
              THEN <<<<0>>, <<1>>>>
              ELSE <<<<0, 1, 0, 1, 1, 0, 1, 0>>, <<1, 0, 1, 0, 0, 1, 0, 1>>>>
    IN  [cp_phases1 |-> cp[1], cp_phases2 |-> cp[2],
         phases1 |-> TakeFlipped(cp[1], n), phases2 |-> TakeFlipped(cp[2], n)]

\* PulseSeq._get_phases (cpmg_hn_dq_zq.py:136-150): the phase lists selected
\* by nu_cpmg and the two phase sequences returned.
GetPhases(n, t2) ==
    LET nu_cpmg == ncycs_to_nu_cpmgs(n, t2)
        cp == IF Below(nu_cpmg, NuLow)
              THEN <<<<0, 1, 0, 1>>, <<1, 0, 1, 0>>>>
              ELSE IF Below(nu_cpmg, NuHigh)
              THEN <<<<0>>, <<1>>>>
              ELSE <<<<0, 1, 0, 1, 1, 0, 1, 0>>, <<1, 0, 1, 0, 0, 1, 0, 1>>>>
    IN  [cp_phases1 |-> cp[1], cp_phases2 |-> cp[2],
         phases1 |-> TakeFlipped(cp[1], n), phases2 |-> TakeFlipped(cp[2], n)]

InitCpmg ==
    /\ MergeIdle /\ CestIdle /\ SpinIdle /\ LaterIdle
    /\ ncyc \in 1..MaxNcyc
    /\ time_t2 \in TimeT2Values
    /\ phases = <<>>

\* self._get_phases(ncyc), as calculate calls it for every ncyc > 0.
GetPhasesCall ==
    /\ phases = <<>>
    /\ phases' = <<GetPhases(ncyc, time_t2)>>
    /\ UNCHANGED <<ncyc, time_t2, notCpmg>>

NextCpmg == GetPhasesCall

SpecCpmg == InitCpmg /\ [][NextCpmg]_vars

\* nu_CPMG = ncyc / time_t2 compared with v Hz, by cross-multiplication.
NuIs(v) == ncyc * time_t2[2] = v * time_t2[1]
NuBelow(v) == ncyc * time_t2[2] < v * time_t2[1]

LowLists(p) == p.cp_phases1 = <<0, 1, 0, 1>> /\ p.cp_phases2 = <<1, 0, 1, 0>>
MediumLists(p) == p.cp_phases1 = <<0>> /\ p.cp_phases2 = <<1>>
HighLists(p) ==
    /\ p.cp_phases1 = <<0, 1, 0, 1, 1, 0, 1, 0>>
    /\ p.cp_phases2 = <<1, 0, 1, 0, 0, 1, 0, 1>>

\* C7: the phase lists depend only on nu_CPMG = ncyc / time_t2: below 51 Hz
\* the 4-phase lists, from 51 Hz and below 255 Hz the single-phase lists, from
\* 255 Hz the 8-phase lists; so 40 is low, 150 and 51.0 are medium, 300 and
\* 255.0 are high.
C7_PhaseCycleByNuCpmg ==
    phases # <<>> =>
        /\ NuBelow(51) => LowLists(phases[1])
        /\ (~NuBelow(51) /\ NuBelow(255)) => MediumLists(phases[1])
        /\ ~NuBelow(255) => HighLists(phases[1])
        /\ NuIs(40) => LowLists(phases[1])
        /\ NuIs(150) => MediumLists(phases[1])
        /\ NuIs(300) => HighLists(phases[1])
        /\ NuIs(51) => MediumLists(phases[1])
        /\ NuIs(255) => HighLists(phases[1])

\* C7 witness: _get_phases has returned for nu_CPMG exactly 51.0 Hz with the
\* single-phase lists.
C7_Witness ==
    /\ phases # <<>>
    /\ NuIs(51)
    /\ MediumLists(phases[1])
    /\ Len(phases[1].phases1) = 2 * ncyc

(***************************************************************************)
(* nmr/spin_system.py: Atom, Group, Spin, SpinSystem                       *)
(***************************************************************************)

\* Python strings are TLA+ strings, indexed from 1.
\* Slices clip at the ends of the string, as s[i:j] does.
Slice(s, i, j) ==
    IF i > j \/ i > Len(s) \/ j < 1 THEN ""
    ELSE SubSeq(s, IF i < 1 THEN 1 ELSE i, IF j > Len(s) THEN Len(s) ELSE j)
Char(s, i) == Slice(s, i, i)
From(s, i) == Slice(s, i, Len(s))
UpTo(s, i) == Slice(s, 1, i)

\* F at the value of e, which is computed once however often F uses it (the
\* value of a local variable of the code).
With(e, F(_)) == CHOOSE y \in {F(x) : x \in {e}} : TRUE

LowerCase == "abcdefghijklmnopqrstuvwxyz"
UpperCase == "ABCDEFGHIJKLMNOPQRSTUVWXYZ"
DigitChars == "0123456789"

Digits == {"0", "1", "2", "3", "4", "5", "6", "7", "8", "9"}

UpperChar(c) ==
    LET at == {i \in 1..26 : Char(LowerCase, i) = c}
    IN  IF at = {} THEN c ELSE Char(UpperCase, CHOOSE i \in at : TRUE)

RECURSIVE UpperFrom(_, _)
UpperFrom(s, i) ==
    IF i > Len(s) THEN ""
    ELSE With(Char(s, i), UpperChar) \o UpperFrom(s, i + 1)

\* str.upper()
Upper(s) ==
    LET All(v) == UpperFrom(v, 1)
    IN  With(s, All)

\* str.strip()
Strip(s) ==
    LET Kept(v) ==
            LET keep == {i \in 1..Len(v) : Char(v, i) # " "}
            IN  IF keep = {} THEN "" ELSE Slice(v, Min(keep), Max(keep))
    IN  With(s, Kept)

\* str.startswith(prefix)
StartsWith(s, prefix) ==
    Len(prefix) <= Len(s) /\ UpTo(s, Len(prefix)) = prefix

\* re.search of a one-character class from position from on: the 1-based
\* index of the first character of s in chars, 0 when there is none.
Search(s, chars, from) ==
    LET found == {i \in from..Len(s) : Char(s, i) \in chars}
    IN  IF found = {} THEN 0 ELSE Min(found)

DigitValue(c) == CHOOSE d \in 0..9 : Char(DigitChars, d + 1) = c

RECURSIVE ToIntUpTo(_, _)
ToIntUpTo(digits, n) ==
    IF n = 0 THEN 0
    ELSE 10 * ToIntUpTo(digits, n - 1) + DigitValue(Char(digits, n))

\* int(digits)
ToInt(digits) ==
    LET All(v) == ToIntUpTo(v, Len(v))
    IN  With(digits, All)

\* str(n) for n >= 0
RECURSIVE ToStr(_)
ToStr(n) ==
    IF n < 10 THEN Char(DigitChars, n + 1)
    ELSE ToStr(n \div 10) \o Char(DigitChars, (n % 10) + 1)

\* str.split(sep) for a one-character separator
RECURSIVE Split(_, _)
Split(s, sep) ==
    LET Parts(v) ==
            LET Cut(at) ==
                    IF at = 0 THEN <<v>>
                    ELSE <<UpTo(v, at - 1)>> \o Split(From(v, at + 1), sep)
            IN  With(Search(v, {sep}, 1), Cut)
    IN  With(s, Parts)

RECURSIVE JoinFrom(_, _, _)
JoinFrom(parts, k, sep) ==
    IF k > Len(parts) THEN ""
    ELSE IF k = Len(parts) THEN parts[k]
    ELSE parts[k] \o sep \o JoinFrom(parts, k + 1, sep)

\* sep.join(parts)
Join(parts, sep) ==
    LET All(v) == JoinFrom(v, 1, sep)
    IN  With(parts, All)

ALIASES == "isx"

\* STR_TO_NUCLEUS.get(letter), "None" when the letter is no key.
STR_TO_NUCLEUS(letter) ==
    CASE letter \in {"H", "Q", "M"} -> "H1"
      [] letter = "N" -> "N15"
      [] letter = "C" -> "C13"
      [] OTHER -> "None"

\* AAA_TO_A as a set of (three-letter, one-letter) pairs.
AAA_TO_A ==
    { <<"ALA", "A">>, <<"ARG", "R">>, <<"ASN", "N">>, <<"ASP", "D">>,
      <<"CYS", "C">>, <<"GLN", "Q">>, <<"GLU", "E">>, <<"GLY", "G">>,
      <<"HIS", "H">>, <<"ILE", "I">>, <<"LEU", "L">>, <<"LYS", "K">>,
      <<"MET", "M">>, <<"PHE", "F">>, <<"PRO", "P">>, <<"SER", "S">>,
      <<"THR", "T">>, <<"TRP", "W">>, <<"TYR", "Y">>, <<"VAL", "V">> }

CORRECT_ATOM_NAME == { <<"HN", "H">>, <<"C'", "C">>, <<"CO", "C">> }

\* dict.get(key, default) for a dict given as a set of (key, value) pairs.
Get(dict, key, default) ==
    LET hit == {kv \in dict : kv[1] = key}
    IN  IF hit = {} THEN default ELSE (CHOOSE kv \in hit : TRUE)[2]

STANDARD_ATOM_NAMES ==
    { "C", "CA", "CB", "CD", "CD1", "CD2", "CE", "CE1", "CE2", "CE3", "CG",
      "CG1", "CG2", "CH2", "CQD", "CQE", "CQG", "CZ", "CZ2", "CZ3", "H", "H2",
      "H3", "HA", "HA2", "HA3", "HB", "HB1", "HB2", "HB3", "HD", "HD1", "HD11",
      "HD12", "HD13", "HD2", "HD21", "HD22", "HD23", "HD3", "HE", "HE1", "HE2",
      "HE21", "HE22", "HE3", "HG", "HG1", "HG11", "HG12", "HG13", "HG2",
      "HG21", "HG22", "HG23", "HG3", "HH", "HH1", "HH11", "HH12", "HH2",
      "HH21", "HH22", "HZ", "HZ1", "HZ2", "HZ3", "MB", "MD", "MD1", "MD2",
      "ME", "MG", "MG1", "MG2", "MZ", "N", "ND1", "ND2", "NE", "NE1", "NE2",
      "NH", "NH1", "NH2", "NQH", "NZ", "QA", "QB", "QD", "QD2", "QE", "QE2",
      "QG", "QG1", "QH1", "QH2", "QMD", "QMG", "QQH", "QR", "QZ" }

\* Group.NO_NUMBER
NO_NUMBER == -100000000

\* Atom.__init__ (spin_system.py:81-87)
Atom(name) ==
    LET Make(corrected) ==
            [name |-> corrected, nucleus |-> STR_TO_NUCLEUS(UpTo(corrected, 1))]
        Correct(upper) == With(Get(CORRECT_ATOM_NAME, upper, upper), Make)
    IN  With(Upper(Strip(name)), Correct)

\* Group.parse_group (spin_system.py:125-129): <<symbol, number, suffix>>
parse_group(name) ==
    LET Parse(start) ==
            LET after == {i \in start..Len(name) : Char(name, i) \notin Digits}
                Cut(end) == <<UpTo(name, start - 1),
                              ToInt(Slice(name, start, end)),
                              From(name, end + 1)>>
            IN  IF start # 0
                THEN With(IF after = {} THEN Len(name) ELSE Min(after) - 1, Cut)
                ELSE <<name, NO_NUMBER, "">>
    IN  With(Search(name, Digits, 1), Parse)

\* str(n) for any integer n
IntToStr(n) == IF n < 0 THEN "-" \o ToStr(-n) ELSE ToStr(n)

\* A get_name that prints the number of a group that has none.
GetNameWithoutGuard(symbol, number, suffix) ==
    symbol \o IntToStr(number) \o suffix

\* Group.get_name (spin_system.py:131-133)
Group_get_name(symbol, number, suffix) ==
    symbol \o (IF number = NO_NUMBER THEN "" ELSE ToStr(number)) \o suffix

\* Group.__init__ (spin_system.py:119-123)
Group(name) ==
    LET Make(parsed) ==
            LET Named(symbol) ==
                    [symbol |-> symbol, number |-> parsed[2],
                     suffix |-> parsed[3],
                     name |-> Group_get_name(symbol, parsed[2], parsed[3])]
            IN  With(Get(AAA_TO_A, parsed[1], parsed[1]), Named)
    IN  With(With(Upper(Strip(name)), parse_group), Make)

\* Spin.split_group_atom (spin_system.py:173-186): <<group, atom>>
split_group_atom(name) ==
    LET Cut(atom_index) ==
            IF name = "?" THEN <<Group(""), Atom("")>>
            ELSE IF atom_index = 0
            THEN (IF name \in STANDARD_ATOM_NAMES
                  THEN <<Group(""), Atom(name)>>
                  ELSE <<Group(name), Atom("")>>)
            ELSE <<Group(UpTo(name, atom_index - 1)),
                   Atom(From(name, atom_index))>>
        FromDigit(found_digit) ==
            With(Search(name, {"H", "C", "N", "Q", "M"},
                        IF found_digit # 0 THEN found_digit ELSE 1),
                 Cut)
    IN  With(Search(name, Digits, 1), FromDigit)

\* A Spin that never takes the group it is given for completion.
SpinWithoutCompletion(name, group_for_completion) ==
    LET Make(parts) ==
            [group |-> parts[1], atom |-> parts[2],
             name |-> parts[1].name \o parts[2].name]
    IN  With(With(Upper(Strip(name)), split_group_atom), Make)

\* Spin.__init__ (spin_system.py:166-171); group_for_completion is <<>> for
\* None and <<the group>> otherwise.
Spin(name, group_for_completion) ==
    LET Make(parts) ==
            LET Named(group) ==
                    [group |-> group, atom |-> parts[2],
                     name |-> group.name \o parts[2].name]
            IN  With(IF parts[1].name = "" /\ group_for_completion # <<>>
                        /\ group_for_completion[1].name # ""
                     THEN group_for_completion[1]
                     ELSE parts[1],
                     Named)
    IN  With(With(Upper(Strip(name)), split_group_atom), Make)

\* SpinSystem.parse_spin_system (spin_system.py:238-249): the spins in alias
\* order; the k-th spin is the one of alias ALIASES[k].
RECURSIVE ParseSpins(_, _, _)
ParseSpins(split, k, spins) ==
    LET Rest(longer) == ParseSpins(split, k + 1, longer)
    IN  IF k > Len(split) \/ k > Len(ALIASES) THEN spins
        ELSE With(Append(spins,
                         Spin(split[k],
                              IF spins = <<>> THEN <<>>
                              ELSE <<spins[Len(spins)].group>>)),
                  Rest)

parse_spin_system(name) ==
    LET Parse(split) == ParseSpins(split, 1, <<>>)
    IN  IF name = "" THEN <<>> ELSE With(Split(name, "-"), Parse)

\* SpinSystem.spins2name (spin_system.py:251-259)
RECURSIVE SpinNames(_, _, _)
SpinNames(spins, k, last_group) ==
    IF k > Len(spins) THEN <<>>
    ELSE <<IF spins[k].group.name = last_group.name
           THEN spins[k].atom.name
           ELSE spins[k].name>>
             \o SpinNames(spins, k + 1, spins[k].group)

spins2name(spins) ==
    LET Names(v) == Join(SpinNames(v, 1, Group("")), "-")
    IN  With(spins, Names)

\* SpinSystem.__init__ (spin_system.py:221-236)
SpinSystem(name) ==
    LET Make(spins) ==
            [spins |-> spins,
             name |-> spins2name(spins),
             groups |-> [k \in 1..Len(spins) |-> spins[k].group],
             atoms |-> [k \in 1..Len(spins) |-> spins[k].atom]]
    IN  With(With(Upper(Strip(name)), parse_spin_system), Make)

\* Atom.match (spin_system.py:89-90)
Atom_match(self, other) == StartsWith(other.name, self.name)

\* A group match that is equality of the groups.
GroupMatchByEquality(self, other) == self.name = other.name

\* Group.match (spin_system.py:135-139)
Group_match(self, other) ==
    LET symbol == other.symbol = self.symbol \/ self.symbol = ""
        number == other.number = self.number \/ self.number = NO_NUMBER
        suffix == other.suffix = self.suffix \/ self.suffix = ""
    IN  number /\ symbol /\ suffix

\* Spin.match (spin_system.py:191-192)
Spin_match(self, other) ==
    Group_match(self.group, other.group) /\ Atom_match(self.atom, other.atom)

\* SpinSystem.match (spin_system.py:270-274): zip stops at the shorter one.
SpinSystem_match(self, other) ==
    \A k \in 1..Min({Len(self.spins), Len(other.spins)}) :
        Spin_match(self.spins[k], other.spins[k])

\* The position of a role letter in ALIASES, 0 when it is none of them.
RoleIndex(letter) ==
    LET at == {k \in 1..Len(ALIASES) : Char(ALIASES, k) = letter}
    IN  IF at = {} THEN 0 ELSE CHOOSE k \in at : TRUE

\* One turn of the loop of SpinSystem.complete (spin_system.py:282-287).
\* Spin objects are named by identity: object 0 is the Spin("") made at line
\* 281, object k is self.spins[ALIASES[k]].  heap holds the objects' fields,
\* so an assignment to spin.atom is seen through every reference to the
\* object, and spin.name keeps the string computed at construction.
CompleteStep(st, role) ==
    LET Turn(id) ==
            LET spin == st.heap[id]
                atom == IF ~StartsWith(spin.atom.name, Upper(role[2]))
                        THEN Atom(role[2] \o From(spin.atom.name, 2))
                        ELSE spin.atom
            IN  [heap |-> [st.heap EXCEPT ![id] = [spin EXCEPT !.atom = atom]],
                 spins |-> Append(st.spins, id),
                 last_spin |-> id]
        Object(k) == IF k \in (DOMAIN st.heap) \ {0} THEN k ELSE st.last_spin
    IN  With(With(RoleIndex(role[1]), Object), Turn)

RECURSIVE CompleteFrom(_, _, _)
CompleteFrom(st, atoms, k) ==
    LET Rest(next) == CompleteFrom(next, atoms, k + 1)
    IN  IF k > Len(atoms) THEN st
        ELSE With(CompleteStep(st, atoms[k]), Rest)

\* SpinSystem.complete (spin_system.py:279-288); atoms is basis.atoms as the
\* sequence of its (letter, atom) items.  The value is the returned spin
\* system together with self.spins as the call leaves them.
complete(self, atoms) ==
    LET n == Len(self.spins)
        Loop(start) == CompleteFrom(start, atoms, 1)
        Return(done) ==
            [result |-> SpinSystem(spins2name(
                            [j \in 1..Len(done.spins) |-> done.heap[done.spins[j]]])),
             spins |-> [j \in 1..n |-> done.heap[j]]]
    IN  With(With([heap |-> [id \in 0..n |->
                               IF id = 0 THEN Spin("", <<>>) ELSE self.spins[id]],
                   spins |-> <<>>,
                   last_spin |-> 0],
                  Loop),
             Return)

\* The pieces spin labels are built from: residue groups (a symbol of one or
\* three letters, a number, a suffix) and atom names.
GroupValues == {"", "gly", "gly023", "G23A"}
AtomNameValues == {"", "HN"}

Tokens ==
    {group \o atom : group \in GroupValues, atom \in AtomNameValues}
        \cup {"?"}

\* Labels of one token for every role of ALIASES at most.
RECURSIVE LabelsOf(_)
LabelsOf(n) ==
    IF n = 1 THEN Tokens
    ELSE {l \o "-" \o t : l \in LabelsOf(n - 1), t \in Tokens}

Labels == UNION {LabelsOf(n) : n \in 1..Len(ALIASES)}

\* basis.atoms of the bases complete is called with.
BasisAtomsValues ==
    { <<<<"i", "n">>>>, <<<<"i", "n">>, <<"s", "h">>>> }

\* The spin systems a spin system is matched against.
OtherLabels == {"?", "HN", "GLY023AHN-HN", "GLY023-?", "023A-GLYHN"}
Others == {SpinSystem(o) : o \in OtherLabels}

InitSpin ==
    /\ MergeIdle /\ CestIdle /\ CpmgIdle /\ LaterIdle
    /\ label \in Labels
    /\ spin_system = SpinSystem(label)
    /\ ret = <<>>

\* SpinSystem(spin_system.name): the normalized name is parsed again.
Reparse ==
    /\ ret' = <<[op |-> "parse", value |-> SpinSystem(spin_system.name)]>>
    /\ UNCHANGED <<label, spin_system, notSpin>>

\* spin_system.complete(basis)
Complete ==
    \E atoms \in BasisAtomsValues :
        \E call \in {complete(spin_system, atoms)} :
            /\ spin_system' = [spin_system EXCEPT !.spins = call.spins]
            /\ ret' = <<[op |-> "complete", atoms |-> atoms,
                         self |-> spin_system.spins, value |-> call.result]>>
            /\ UNCHANGED <<label, notSpin>>

\* What the matches of one role answer, in both directions.
MatchesOf(a, b) ==
    [atom |-> <<Atom_match(a.atom, b.atom), Atom_match(b.atom, a.atom)>>,
     group |-> <<Group_match(a.group, b.group), Group_match(b.group, a.group)>>,
     spin |-> <<Spin_match(a, b), Spin_match(b, a)>>]

\* spin_system.match(other) and other.match(spin_system), with the matches
\* of the spins, groups and atoms they are made of.
Match ==
    \E other \in Others :
        LET both == 1..Min({Len(spin_system.spins), Len(other.spins)})
        IN  /\ ret' = <<[op |-> "match", other |-> other,
                         value |-> <<SpinSystem_match(spin_system, other),
                                     SpinSystem_match(other, spin_system)>>,
                         roles |-> [k \in both |->
                                      MatchesOf(spin_system.spins[k],
                                                other.spins[k])]]>>
            /\ UNCHANGED <<label, spin_system, notSpin>>

NextSpin == Reparse \/ Complete \/ Match

SpecSpin == InitSpin /\ [][NextSpin]_vars

SpinOp == IF ret = <<>> THEN "none" ELSE ret[1].op

C9_CompleteRestoresWildcards ==
    SpinOp = "complete" =>
        LET call == ret[1]
        IN  \A j \in 1..Len(call.atoms) :
              LET k == RoleIndex(call.atoms[j][1])
                  letter == Upper(call.atoms[j][2])
                  specified == k \in DOMAIN call.self
                                 /\ call.self[k].atom.name # ""
              IN  /\ k \in DOMAIN call.value.spins
                  /\ call.value.spins[k].atom.name =
                       IF specified THEN call.self[k].atom.name ELSE letter

\* What separates a wildcard from a value in the fields of a group and a spin.
GroupFields(group) == <<group.symbol, group.number, group.suffix>>
SpinFields(spin) == GroupFields(spin.group) \o <<spin.atom.name>>
Blank == <<"", NO_NUMBER, "", "">>

\* p has a blank field where c has a value, and their other fields agree.
IsWildcardOf(p, c) ==
    /\ \E f \in DOMAIN p : p[f] = Blank[f] /\ c[f] # Blank[f]
    /\ \A f \in DOMAIN p : p[f] = c[f] \/ (p[f] = Blank[f] /\ c[f] # Blank[f])

\* The match of p against c was true and the match of c against p false.
OnlyForward(answers) == answers[1] /\ ~answers[2]
OnlyBackward(answers) == answers[2] /\ ~answers[1]

\* C10: at the level of atoms, groups and spins, a pattern with a blank field
\* matches a candidate that has a value there and agrees elsewhere, and the
\* candidate does not match the pattern.
C10_WildcardIsDirectional ==
    SpinOp = "match" =>
        \A k \in DOMAIN ret[1].roles :
            LET a == spin_system.spins[k]
                b == ret[1].other.spins[k]
                answers == ret[1].roles[k]
            IN  /\ (a.atom.name = "" /\ b.atom.name # "") => OnlyForward(answers.atom)
                /\ (b.atom.name = "" /\ a.atom.name # "") => OnlyBackward(answers.atom)
                /\ IsWildcardOf(GroupFields(a.group), GroupFields(b.group))
                     => OnlyForward(answers.group)
                /\ IsWildcardOf(GroupFields(b.group), GroupFields(a.group))
                     => OnlyBackward(answers.group)
                /\ IsWildcardOf(SpinFields(a), SpinFields(b))
                     => OnlyForward(answers.spin)
                /\ IsWildcardOf(SpinFields(b), SpinFields(a))
                     => OnlyBackward(answers.spin)

\* A spin with only a residue symbol was matched with a spin that has the
\* same symbol, a number, a suffix and an atom, in the second role.
C10_Witness ==
    /\ SpinOp = "match"
    /\ 2 \in DOMAIN ret[1].roles
    /\ LET a == spin_system.spins[2]
           b == ret[1].other.spins[2]
       IN  /\ a.group.symbol # "" /\ a.group.number = NO_NUMBER
           /\ a.atom.name = "" /\ b.atom.name # ""
           /\ IsWildcardOf(GroupFields(a.group), GroupFields(b.group))
           /\ IsWildcardOf(SpinFields(a), SpinFields(b))
           /\ OnlyForward(ret[1].roles[2].spin)
           /\ OnlyForward(ret[1].roles[2].group)
           /\ OnlyForward(ret[1].roles[2].atom)

\* The tokens of a label, none for the empty label.
TokensOf(name) == IF name = "" THEN <<>> ELSE Split(Upper(Strip(name)), "-")

\* The group a token names by itself.
OwnGroup(token) == split_group_atom(token)[1]

\* C13: the k-th token of a label is the spin of the k-th alias; a token
\* without a group of its own has the group of the spin before it, and a
\* token with a group keeps it.
C13_GroupCarriedLeftToRight ==
    LET tokens == TokensOf(label)
        spins == spin_system.spins
    IN  /\ Len(spins) = Len(tokens)
        /\ \A k \in 1..Len(tokens) :
             spins[k].group =
                 IF OwnGroup(tokens[k]).name = "" /\ k > 1
                 THEN spins[k - 1].group
                 ELSE OwnGroup(tokens[k])

\* Of three tokens the second has no group and got the one of the first, and
\* the third kept its own.
C13_Witness ==
    LET tokens == TokensOf(label)
        spins == spin_system.spins
    IN  /\ Len(tokens) = 3 /\ Len(spins) = 3
        /\ OwnGroup(tokens[2]).name = ""
        /\ spins[1].group.name # ""
        /\ spins[2].group = spins[1].group
        /\ OwnGroup(tokens[3]).name # ""
        /\ spins[3].group # spins[2].group
        /\ spins[3].group = OwnGroup(tokens[3])

(***************************************************************************)
(* nmr/spin_system.py: SpinSystem.part_of and SpinSystem.__and__           *)
(***************************************************************************)

\* SpinSystem.part_of (spin_system.py:276-277)
part_of(self, selection) ==
    \E j \in 1..Len(selection) : SpinSystem_match(selection[j], self)

\* The orders a set can be iterated in: the order of a Python set of objects
\* hashed by their name changes with the hash seed of the interpreter.
Orders(S) ==
    {order \in [1..Cardinality(S) -> S] :
        \A j, k \in 1..Cardinality(S) : order[j] = order[k] => j = k}

\* SpinSystem.__and__ (spin_system.py:290-299): the spin systems the call can
\* return.  Spins and groups are set members by name (__eq__, __hash__).
SpinSystem_and(self, other) ==
    LET NamesOf(objects) == {objects[k].name : k \in 1..Len(objects)}
        spins == NamesOf(self.spins) \cap NamesOf(other.spins)
        groups == NamesOf(self.groups) \cap NamesOf(other.groups)
    IN  IF self.name = other.name THEN {SpinSystem(self.name)}
        ELSE IF spins # {}
        THEN {SpinSystem(Join(order, "-")) : order \in Orders(spins)}
        ELSE IF Cardinality(groups) = 1
        THEN {SpinSystem(Join(order, "-")) : order \in Orders(groups)}
        ELSE {SpinSystem("")}

\* The receivers of the calls: labels of one or two tokens.
PairLabels == LabelsOf(1) \cup LabelsOf(2)

\* The selections part_of is called with.
SelectionLabels ==
    { <<>>, <<"HN">>, <<"GLY023-?">>, <<"HN", "GLY023AHN-HN">> }
Selections ==
    {[j \in 1..Len(labels) |-> SpinSystem(labels[j])] : labels \in SelectionLabels}

\* The right operands of &.
AndLabels == {"HN-G23AHN-GLY", "G23AHN", "GLY023-G23A", "?-GLY"}
AndOthers == {SpinSystem(o) : o \in AndLabels}

InitSpinPair ==
    /\ MergeIdle /\ CestIdle /\ CpmgIdle /\ LaterIdle
    /\ label \in PairLabels
    /\ spin_system = SpinSystem(label)
    /\ ret = <<>>

\* spin_system.part_of(selection)
PartOf ==
    \E selection \in Selections :
        /\ ret' = <<[op |-> "part_of", selection |-> selection,
                     value |-> part_of(spin_system, selection)]>>
        /\ UNCHANGED <<label, spin_system, notSpin>>

\* spin_system & other, and other & spin_system
And ==
    \E other \in AndOthers :
        \E value \in SpinSystem_and(spin_system, other),
           reverse \in SpinSystem_and(other, spin_system) :
            /\ ret' = <<[op |-> "and", other |-> other, value |-> value,
                         reverse |-> reverse]>>
            /\ UNCHANGED <<label, spin_system, notSpin>>

NextSpinPair == Match \/ PartOf \/ Complete \/ And

SpecSpinPair == InitSpinPair /\ [][NextSpinPair]_vars

\* The spin of a role, the blank spin when the role is not assigned.
SpinAt(system, k) ==
    IF k \in DOMAIN system.spins THEN system.spins[k] ELSE Spin("", <<>>)

\* Every role assigned in p or in c matches, the blanks of p being wildcards.
MatchesOnEveryRole(p, c) ==
    \A k \in 1..Max({Len(p.spins), Len(c.spins)}) :
        Spin_match(SpinAt(p, k), SpinAt(c, k))

\* C11: p.match(c) is true exactly when the spins of every role assigned in
\* p or in c match, and part_of(selection) exactly when some item of the
\* selection matches the spin system in this sense.
C11_MatchOnEveryRole ==
    /\ SpinOp = "match" =>
         /\ ret[1].value[1] = MatchesOnEveryRole(spin_system, ret[1].other)
         /\ ret[1].value[2] = MatchesOnEveryRole(ret[1].other, spin_system)
    /\ SpinOp = "part_of" =>
         ret[1].value = \E j \in 1..Len(ret[1].selection) :
                            MatchesOnEveryRole(ret[1].selection[j], spin_system)

\* The names of the spins and of the groups of a spin system, as sets.
SpinSet(system) == {system.spins[k].name : k \in 1..Len(system.spins)}
GroupSet(system) == {system.groups[k].name : k \in 1..Len(system.groups)}

\* C12: a & b is a when a == b, else the spin system of exactly the spins in
\* both when there is one, else the one group in both, else the empty spin
\* system; the spins and groups of the result are those of b & a.
C12_AndIsIntersection ==
    SpinOp = "and" =>
        LET a == spin_system
            b == ret[1].other
            result == ret[1].value
            spins == SpinSet(a) \cap SpinSet(b)
            groups == GroupSet(a) \cap GroupSet(b)
        IN  /\ IF a.name = b.name THEN result.name = a.name
               ELSE IF spins # {} THEN SpinSet(result) = spins
               ELSE IF Cardinality(groups) = 1
               THEN result.name = CHOOSE g \in groups : TRUE
               ELSE result.spins = <<>>
            /\ SpinSet(result) = SpinSet(ret[1].reverse)
            /\ GroupSet(result) = GroupSet(ret[1].reverse)

\* C14: whatever is called on it, a spin system keeps the name, spins, groups
\* and atoms it was constructed with.
C14_Immutable ==
    [][ /\ spin_system'.name = spin_system.name
        /\ spin_system'.spins = spin_system.spins
        /\ spin_system'.groups = spin_system.groups
        /\ spin_system'.atoms = spin_system.atoms ]_vars

\* C18: for ncyc > 0 both phase sequences have 2 * ncyc elements, element k
\* (from 0) is the selected list at index (2 * ncyc - 1 - k) modulo its
\* length, and the second sequence is the opposite phase of the first
\* everywhere.
C18_PhasesReversedAndWrapped ==
    phases # <<>> =>
        LET p == phases[1]
            Taken(list, k) == list[((2 * ncyc - 1 - k) % Len(list)) + 1]
        IN  /\ Len(p.phases1) = 2 * ncyc
            /\ Len(p.phases2) = 2 * ncyc
            /\ \A k \in 0..(2 * ncyc - 1) :
                 /\ p.phases1[k + 1] = Taken(p.cp_phases1, k)
                 /\ p.phases2[k + 1] = Taken(p.cp_phases2, k)
                 /\ p.phases2[k + 1] = 1 - p.phases1[k + 1]

\* The 8-phase lists were taken for a number of pulses that is no multiple
\* of 8, so the lookup wrapped past the end of the list part-way.
C18_Witness ==
    /\ phases # <<>>
    /\ HighLists(phases[1])
    /\ (2 * ncyc) % 8 # 0
    /\ 2 * ncyc > 8
    /\ Len(phases[1].phases1) = 2 * ncyc
    /\ phases[1].phases1[1] # phases[1].cp_phases1[1]

\* C19: a point is a reference point exactly when _calculate gives the
\* equilibrium signal for its offset, with |offset| >= 1e4 on both sides;
\* _calculate gives one value per offset, in order, equal for equal offsets.
C19_ReferenceIsUnirradiated ==
    LastOp = "print" =>
        LET values == out[1].value
        IN  /\ Len(values) = Len(points)
            /\ \A k \in 1..Len(points) :
                 /\ refs[k] <=> values[k].calculated.signal = "start"
                 /\ refs[k] <=> Abs(points[k].offsets) >= 10000
                 /\ ~refs[k] => values[k].calculated.offset_i = points[k].offsets
            /\ \A j, k \in 1..Len(points) :
                 points[j].offsets = points[k].offsets
                     => values[j].calculated = values[k].calculated

\* A profile with a point at exactly 10000 Hz, one below -10000 Hz and one
\* irradiated point was calculated at all its offsets.
C19_Witness ==
    /\ LastOp = "print"
    /\ \E i, j, k \in 1..Len(points) :
         /\ points[i].offsets = 10000 /\ refs[i]
         /\ out[1].value[i].calculated.signal = "start"
         /\ points[j].offsets < -10000 /\ refs[j]
         /\ out[1].value[j].calculated.signal = "start"
         /\ ~refs[k] /\ out[1].value[k].calculated.signal = "pulse_is"


\* ---------------------------------------------------------------------------
\* The memoized PulseSeq.calculate of the CEST experiment
\* (experiments/cest_15n_cw.py:98-112).
\* ---------------------------------------------------------------------------

\* ft.lru_cache(maxsize=5) (cest_15n_cw.py:98).
maxsize == 5

\* The arguments of the calls: offsets tuples as CestProfile.calculate builds
\* them (cest.py:86, 89) and parameter tuples as _get_parvals builds them
\* (cest.py:146-150).
OffsetsValues == { <<50, -10000>>, <<-10000, 50>>, <<50, 50, 10000>> }
ParamsLocalValues == { <<<<"pb", 1>>>>, <<<<"pb", 2>>>> }

\* PulseSeq._calculate (cest_15n_cw.py:100-112): prop.update(params_local)
\* comes first and prop.offset_i is set before every pulse_is, so that each
\* intensity is a term of the offset and of params_local; the array follows
\* the order of the offsets given.
PulseSeq_calculate(offsets, params_local) ==
    [k \in 1..Len(offsets) |->
        [intst |-> Intst(offsets[k]), params |-> params_local]]

\* A plausible slip of the key: the parameter tuple is left out of it.
MakeKeyOffsetsOnly(offsets, params_local) == <<offsets>>

\* The key lru_cache makes of the positional arguments (functools._make_key
\* as used by the wrapper made at cest_15n_cw.py:98).
MakeKey(offsets, params_local) == <<offsets, params_local>>

\* The index of the entry of key in entries, 0 when there is none.
Lookup(entries, key) ==
    IF \E j \in 1..Len(entries) : entries[j].key = key
    THEN CHOOSE j \in 1..Len(entries) : entries[j].key = key
    ELSE 0

Without(entries, j) ==
    [k \in 1..(Len(entries) - 1) |->
        IF k < j THEN entries[k] ELSE entries[k + 1]]

\* The lru_cache wrapper (cest_15n_cw.py:98): a hit returns the stored value
\* and makes the entry the most recent one; a miss calls _calculate, stores
\* the result, and drops the least recent entry of a full cache.
Cached(entries, offsets, params_local) ==
    LET key == MakeKey(offsets, params_local)
        j == Lookup(entries, key)
    IN  IF j > 0
        THEN [hit |-> TRUE, value |-> entries[j].value,
              cache |-> Append(Without(entries, j), entries[j])]
        ELSE LET value == PulseSeq_calculate(offsets, params_local)
                 entry == [key |-> key, value |-> value]
             IN  [hit |-> FALSE, value |-> value,
                  cache |-> IF Len(entries) >= maxsize
                            THEN Append(Tail(entries), entry)
                            ELSE Append(entries, entry)]

InitCache ==
    /\ MergeIdle /\ CestIdle /\ CpmgIdle /\ SpinIdle /\ FitIdle /\ EnsembleIdle
    /\ cache = <<>>
    /\ called = <<>>

\* self._pulse_seq.calculate(offsets, params_local) (cest.py:86, 89).
CalculateCall ==
    /\ \E offsets \in OffsetsValues, params_local \in ParamsLocalValues :
          \E call \in {Cached(cache, offsets, params_local)} :
             /\ cache' = call.cache
             /\ called' = <<[offsets |-> offsets, params_local |-> params_local,
                             hit |-> call.hit, value |-> call.value,
                             before |-> cache]>>
    /\ UNCHANGED notCache

NextCache == CalculateCall

SpecCache == InitCache /\ [][NextCache]_vars

\* C17: every call of the memoized calculate returns what _calculate returns
\* for its arguments, it is a hit only when an entry of exactly these offsets
\* and parameters was cached before the call, and the cache never holds more
\* than maxsize entries.
C17_ExactBoundedMemo ==
    /\ Len(cache) <= maxsize
    /\ called # <<>> =>
          /\ called[1].value
                = PulseSeq_calculate(called[1].offsets, called[1].params_local)
          /\ called[1].hit <=>
                \E j \in 1..Len(called[1].before) :
                   called[1].before[j].key
                      = <<called[1].offsets, called[1].params_local>>

\* A hit on a full cache whose entry was not the most recent one, while
\* another entry of the same offsets and other parameters is cached.
C17_Witness ==
    /\ called # <<>>
    /\ called[1].hit
    /\ Len(cache) = maxsize
    /\ cache # called[1].before
    /\ \E j \in 1..Len(cache) :
          /\ cache[j].key[1] = called[1].offsets
          /\ cache[j].key[2] # called[1].params_local


\* ---------------------------------------------------------------------------
\* Reporter (optimize/minimizer.py:23-54).
\* ---------------------------------------------------------------------------

\* A chi-square is a float: <<>> is NaN (the sum of squares of residuals one
\* of which is NaN) and <<n>> is the finite value n.
NaN == <<>>

MaxCalls == 3

\* Reporter.last_chisqr = 1e32 (minimizer.py:25), kept as a value that every
\* chi-square of the model is below 0.999 times of, as every chi-square
\* below 0.999e32 is of 1e32.
InitialChisqr == 1000000

\* Reporter.threshold = -1.0e-3 (minimizer.py:26), as threshold / Scale.
Scale == 1000
threshold == -1

ChisqrValues == {NaN, <<0>>, <<998>>, <<999>>, <<1000>>, <<2000>>}
IterationValues == {-1, 0, 1}

\* ndata - nvarys of the residuals and parameters handed over
\* (minimizer.py:39-43).
DofValues == {-1, 2}

\* change > self.threshold (minimizer.py:32-34) in float arithmetic, with
\* change = (chisqr - last_chisqr) / last_chisqr: a NaN operand gives NaN,
\* 0/0 gives NaN, x/0 with x > 0 gives inf, and NaN > threshold is false.
ChangeAboveThreshold(chisqr, last_chisqr) ==
    IF chisqr = NaN \/ last_chisqr = NaN THEN FALSE
    ELSE IF last_chisqr[1] = 0 THEN chisqr[1] > 0
    ELSE Scale * (chisqr[1] - last_chisqr[1]) > threshold * last_chisqr[1]

\* Reporter.iter_cb (minimizer.py:28-45) on the reporter self, chisqr being
\* (residuals**2).sum() and dof being ndata - nvarys; a line printed is
\* <<iteration, chisqr, redchi>>, redchi kept as the term chisqr / max(1, dof).
iter_cb(self, iteration, chisqr, dof) ==
    IF ChangeAboveThreshold(chisqr, self.last_chisqr) \/ iteration < 0
    THEN self
    ELSE [self EXCEPT
            !.last_chisqr = chisqr,
            !.printed = Append(@, <<iteration, chisqr,
                                    [chisqr |-> chisqr,
                                     per |-> IF dof > 1 THEN dof ELSE 1]>>)]

\* Reporter() (minimizer.py:23-26, 84).
NewReporter == [last_chisqr |-> <<InitialChisqr>>, printed |-> <<>>,
                ncalls |-> 0, called |-> <<>>]

InitReporter ==
    /\ MergeIdle /\ CestIdle /\ CpmgIdle /\ SpinIdle
    /\ CacheIdle /\ MinimizerIdle /\ EnsembleIdle
    /\ reporter = NewReporter

\* One call reporter.iter_cb(params, iteration, residuals).
IterCb ==
    /\ reporter # <<>>
    /\ minimizer = <<>>
    /\ reporter.ncalls < MaxCalls
    /\ \E iteration \in IterationValues, chisqr \in ChisqrValues,
          dof \in DofValues :
          reporter' =
             [iter_cb(reporter, iteration, chisqr, dof) EXCEPT
                !.ncalls = @ + 1,
                !.called = <<[iteration |-> iteration, chisqr |-> chisqr,
                              before |-> reporter]>>]
    /\ UNCHANGED <<notFit, minimizer>>

NextReporter == IterCb

SpecReporter == InitReporter /\ [][NextReporter]_vars

\* chisqr is lower than last_chisqr by at least a relative 1e-3.
LowerByThreshold(chisqr, last_chisqr) ==
    /\ chisqr # NaN /\ last_chisqr # NaN
    /\ chisqr[1] < last_chisqr[1]
    /\ Scale * (last_chisqr[1] - chisqr[1]) >= -threshold * last_chisqr[1]

\* C20: over a sequence of iter_cb calls last_chisqr never increases (the
\* chi-squares of the lines printed, which are its values in turn, never go
\* up), and a call changes last_chisqr or prints a line only when its
\* iteration is >= 0 and its chi-square is lower than last_chisqr by at least
\* a relative 1e-3.
C20_LastChisqrNeverIncreases ==
    (reporter # <<>> /\ reporter.called # <<>>) =>
        LET call == reporter.called[1]
            lines == reporter.printed
        IN  /\ \A j, k \in 1..Len(lines) :
                  (j < k /\ lines[j][2] # NaN /\ lines[k][2] # NaN)
                     => lines[k][2][1] <= lines[j][2][1]
            /\ (reporter.last_chisqr # call.before.last_chisqr
                   \/ lines # call.before.printed)
                  => /\ call.iteration >= 0
                     /\ LowerByThreshold(call.chisqr, call.before.last_chisqr)


\* ---------------------------------------------------------------------------
\* minimize and minimize_with_report (optimize/minimizer.py:57-100).
\* ---------------------------------------------------------------------------

MaxNfev == 3

Routines == {"minimize", "minimize_with_report"}

\* A parameter set is known by the chi-square experiments.residuals gives
\* for it; NaN is a set for which a residual is NaN.
TrialValues == {NaN, <<999>>, <<1000>>, <<2000>>}

\* The lower of two parameter sets, none of which is NaN.
Better(a, b) == IF a[1] <= b[1] THEN a ELSE b

\* Minimizer(experiments.residuals, params[, iter_cb]) followed by the start
\* of minimizer.minimize (minimizer.py:67-68, 82-87): result.params is a copy
\* of params, nothing is evaluated yet.  best is the best set evaluated so
\* far, <<>> before the first evaluation.
InitFit ==
    /\ MergeIdle /\ CestIdle /\ CpmgIdle /\ SpinIdle
    /\ CacheIdle /\ EnsembleIdle
    /\ \E routine \in Routines, params \in TrialValues \ {NaN} :
          /\ minimizer = [routine |-> routine, pc |-> "minimizing",
                          params |-> params, result_params |-> params,
                          nfev |-> 0, best |-> <<>>, exception |-> "",
                          message |-> "", returned |-> <<>>]
          /\ reporter = IF routine = "minimize_with_report"
                        THEN NewReporter ELSE <<>>

\* The end of a run on exception exc, raised inside minimizer.minimize:
\* minimize has no handler (minimizer.py:67-70) and the exception leaves it;
\* minimize_with_report prints its message and returns a copy of
\* minimizer.result.params (minimizer.py:88-100).
Raise(self, exc) ==
    IF self.routine = "minimize"
    THEN [self EXCEPT !.pc = "raised", !.exception = exc]
    ELSE [self EXCEPT
            !.pc = "returned", !.exception = exc,
            !.message = IF exc = "KeyboardInterrupt"
                        THEN "calculation_stopped_error" ELSE "value_error",
            !.returned = <<self.result_params>>]

\* One evaluation of the residual function by the minimizer for the parameter
\* set trial (minimizer.py:67-68, 82, 89): the trial is written into
\* result.params, iter_cb is called with the evaluation count, and residuals
\* with a NaN make the minimizer raise ValueError.
Evaluate ==
    /\ minimizer # <<>>
    /\ minimizer.pc = "minimizing"
    /\ minimizer.nfev < MaxNfev
    /\ \E trial \in TrialValues, dof \in DofValues :
          LET nfev == minimizer.nfev + 1
              evaluated == [minimizer EXCEPT
                              !.result_params = trial,
                              !.nfev = nfev,
                              !.best = IF trial = NaN THEN @
                                       ELSE IF @ = <<>> THEN <<trial>>
                                       ELSE <<Better(@[1], trial)>>]
          IN  /\ reporter' = IF reporter = <<>> THEN reporter
                             ELSE iter_cb(reporter, nfev, trial, dof)
              /\ minimizer' = IF trial = NaN
                              THEN Raise(evaluated, "ValueError")
                              ELSE evaluated
    /\ UNCHANGED notFit

\* Ctrl-C while minimizer.minimize runs (minimizer.py:68, 89).
Interrupt ==
    /\ minimizer # <<>>
    /\ minimizer.pc = "minimizing"
    /\ minimizer' = Raise(minimizer, "KeyboardInterrupt")
    /\ UNCHANGED <<notFit, reporter>>

\* minimizer.minimize returns (minimizer.py:68-70, 89-92, 100): result.params
\* holds the solution, the best set evaluated; minimize_with_report prints
\* the footer.
Converge ==
    /\ minimizer # <<>>
    /\ minimizer.pc = "minimizing"
    /\ minimizer.best # <<>>
    /\ minimizer' = [minimizer EXCEPT
                       !.pc = "returned",
                       !.result_params = minimizer.best[1],
                       !.message = IF minimizer.routine = "minimize_with_report"
                                   THEN "footer" ELSE "",
                       !.returned = <<minimizer.best[1]>>]
    /\ UNCHANGED <<notFit, reporter>>

NextFit == Evaluate \/ Interrupt \/ Converge

SpecFit == InitFit /\ [][NextFit]_vars

\* The best parameters found so far: the best set evaluated, the starting
\* set when none was.
BestSoFar(self) == IF self.best = <<>> THEN self.params ELSE self.best[1]

\* C15: a KeyboardInterrupt or ValueError raised during the minimization does
\* not leave the fit routine: the routine returns, and what it returns is the
\* best parameter set found so far.
C15_StopReturnsBestSoFar ==
    (minimizer # <<>> /\ minimizer.exception # "") =>
        /\ minimizer.pc = "returned"
        /\ minimizer.returned = <<BestSoFar(minimizer)>>

\* The part of C15 that minimize_with_report keeps: the exception is caught
\* and a parameter set is returned.
C15_ReportCatches ==
    (minimizer # <<>> /\ minimizer.exception # ""
        /\ minimizer.routine = "minimize_with_report") =>
        /\ minimizer.pc = "returned"
        /\ minimizer.returned = <<minimizer.result_params>>


\* ---------------------------------------------------------------------------
\* The bootstrap / Monte Carlo ensemble of main (__main__.py:37-71, 194-217).
\* A data point is an object of the heap, known by its index there; a dataset
\* is a list of such objects.
\* ---------------------------------------------------------------------------

MaxData == 2
MaxReplicates == 2

ProfileIdValues == {1, 2}

\* random.gauss(cal, err) is cal + noise * err for a noise drawn here.
NoiseValues == {-1, 1}

\* The point objects read_data and create_par_list_to_fit leave in data
\* (__main__.py:170-175): val measured, cal set by a fit, err the uncertainty.
DataPoints ==
    [profile_id : ProfileIdValues, reference : BOOLEAN,
     val : {10}, cal : {12}, err : {1}]

DataLists == UNION {[1..n -> DataPoints] : n \in 1..MaxData}

\* The elements of the set of integers S in ascending order.
Ascending(S) ==
    CHOOSE order \in [1..Cardinality(S) -> S] :
        \A j, k \in 1..Cardinality(S) : j < k => order[j] < order[k]

\* profile_id of make_bootstrap_dataset (__main__.py:48-49).
ProfileKey(objects, id) == <<objects[id].profile_id, objects[id].reference>>

\* profiles.values() of make_bootstrap_dataset (__main__.py:44-51): the
\* points of data grouped by profile_id, the groups in the order in which
\* their first point comes in data.
ProfileGroups(objects, data) ==
    LET firsts == {j \in 1..Len(data) :
                      \A i \in 1..(j - 1) :
                         ProfileKey(objects, data[i])
                            # ProfileKey(objects, data[j])}
        members(j) == Ascending({i \in 1..Len(data) :
                         ProfileKey(objects, data[i])
                            = ProfileKey(objects, data[j])})
        group(j) == [n \in 1..Len(members(j)) |-> data[members(j)[n]]]
        order == Ascending(firsts)
    IN  [g \in 1..Len(order) |-> group(order[g])]

\* [choice(profile) for _ in xrange(len(profile))] (__main__.py:56-58): every
\* list the drawing can give; its elements are the objects of profile.
Resamples(profile) ==
    {[j \in 1..Len(profile) |-> profile[pick[j]]] :
        pick \in [1..Len(profile) -> 1..Len(profile)]}

RECURSIVE BootstrapFrom(_, _)
BootstrapFrom(groups, g) ==
    IF g > Len(groups) THEN {<<>>}
    ELSE {drawn \o rest : drawn \in Resamples(groups[g]),
                          rest \in BootstrapFrom(groups, g + 1)}

\* make_bootstrap_dataset(data) (__main__.py:37-60): the datasets it can
\* return.  No object is created: the heap is left as it is.
make_bootstrap_dataset(objects, data) ==
    BootstrapFrom(ProfileGroups(objects, data), 1)

\* make_montecarlo_dataset(data) (__main__.py:63-71) for the noises drawn:
\* deepcopy makes one new object per point of data, whose val is then set.
make_montecarlo_dataset(objects, data, noise) ==
    LET copies == [j \in 1..Len(data) |->
                      [objects[data[j]] EXCEPT
                          !.val = objects[data[j]].cal
                                     + noise[j] * objects[data[j]].err]]
    IN  [heap |-> objects \o copies,
         data_mc |-> [j \in 1..Len(data) |-> Len(objects) + j]]

\* main up to the loop (__main__.py:170-198): data and par are read; mode is
\* "bs" for args.bs and "mc" for args.mc, n the number of replicates asked.
\* par is the parameter object the name par is bound to when the loop starts.
InitEnsemble ==
    /\ MergeIdle /\ CestIdle /\ CpmgIdle /\ SpinIdle
    /\ CacheIdle /\ FitIdle
    /\ \E pts \in DataLists, mode \in {"bs", "mc"}, n \in 1..MaxReplicates :
          /\ heap = pts
          /\ dataset = [j \in 1..Len(pts) |-> j]
          /\ replicates = [mode |-> mode, n |-> n, par |-> "par",
                           runs |-> <<>>]

\* One turn of the loop of main (__main__.py:200-217): the dataset of the
\* replicate is made and fit_write_plot is called on it with par.
Replicate ==
    /\ replicates # <<>>
    /\ Len(replicates.runs) < replicates.n
    /\ \/ /\ replicates.mode = "bs"
          /\ \E data_index \in make_bootstrap_dataset(heap, dataset) :
                replicates' = [replicates EXCEPT
                                 !.runs = Append(@, [data |-> data_index,
                                                     par |-> replicates.par])]
          /\ UNCHANGED heap
       \/ /\ replicates.mode = "mc"
          /\ \E noise \in [1..Len(dataset) -> NoiseValues] :
                \E made \in {make_montecarlo_dataset(heap, dataset, noise)} :
                   /\ heap' = made.heap
                   /\ replicates' =
                         [replicates EXCEPT
                            !.runs = Append(@, [data |-> made.data_mc,
                                                par |-> replicates.par])]
    /\ UNCHANGED <<notEnsemble, dataset>>

NextEnsemble == Replicate

SpecEnsemble == InitEnsemble /\ [][NextEnsemble]_vars

\* The objects of a dataset.
ObjectsOf(data) == {data[j] : j \in 1..Len(data)}

\* C16: the fit of a replicate is given data point objects that are neither
\* objects of the original dataset nor objects of another replicate, and a
\* parameter object that is neither the original one nor that of another
\* replicate.
C16_ReplicatesShareNothing ==
    replicates # <<>> =>
        \A k \in 1..Len(replicates.runs) :
            /\ ObjectsOf(replicates.runs[k].data) \cap ObjectsOf(dataset) = {}
            /\ replicates.runs[k].par # replicates.par
            /\ \A j \in 1..Len(replicates.runs) :
                  j # k =>
                     /\ ObjectsOf(replicates.runs[j].data)
                           \cap ObjectsOf(replicates.runs[k].data) = {}
                     /\ replicates.runs[j].par # replicates.runs[k].par

\* What the Monte Carlo branch does keep apart: the data point objects.
C16_MonteCarloDataApart ==
    (replicates # <<>> /\ replicates.mode = "mc") =>
        \A k \in 1..Len(replicates.runs) :
            /\ ObjectsOf(replicates.runs[k].data) \cap ObjectsOf(dataset) = {}
            /\ \A j \in 1..Len(replicates.runs) :
                  j # k => ObjectsOf(replicates.runs[j].data)
                              \cap ObjectsOf(replicates.runs[k].data) = {}


\* ---------------------------------------------------------------------------
\* The validity mask over the life of a CestData (cest.py:236-263).
\* ---------------------------------------------------------------------------

\* The mask as loading leaves it: a point is excluded exactly when it is an
\* in-range filter plane or when it is a reference and the references are
\* filtered; whenever a reference is used, so is every other reference that
\* is not a filter plane.
LoadedMask ==
    /\ Len(mask) = Len(points) /\ Len(refs) = Len(points)
    /\ \A k \in 1..Len(points) :
          /\ refs[k] <=> Abs(points[k].offsets) >= RefOffset
          /\ (~mask[k] /\ ~refs[k]) => (k - 1) \in UNION FilterPlanesValues
    /\ \/ \A k \in 1..Len(points) : refs[k] => ~mask[k]
       \/ \A k \in 1..Len(points) :
             (refs[k] /\ ~mask[k]) => (k - 1) \in UNION FilterPlanesValues

\* One step: no excluded point is used again, and points, refs and the
\* filter windows are what they were.
MaskShrinks ==
    /\ Len(mask') = Len(mask)
    /\ \A k \in 1..Len(mask) : mask'[k] => mask[k]
    /\ points' = points
    /\ refs' = refs
    /\ filter_offsets' = filter_offsets

\* C21: after loading, which excludes the in-range filter planes and, on
\* request, the references, no sequence of filter calls (nor any other call)
\* turns an excluded point back to used, and points, refs and the filter
\* windows never change.
C21_MaskOnlyShrinks == LoadedMask /\ [][MaskShrinks]_vars

\* A filter call that has excluded a used point while a point excluded
\* before the call lies outside every window of the call.
C21_Witness ==
    /\ LastOp = "filter"
    /\ \E k \in 1..Len(mask) : out[1].mask_before[k] /\ ~mask[k]
    /\ \E k \in 1..Len(mask) :
          /\ ~out[1].mask_before[k] /\ ~mask[k]
          /\ \A w \in 1..Len(filter_offsets) :
                ~MaskFilter(points[k].offsets, out[1].cs_offset,
                            filter_offsets[w], out[1].sw_dante)


\* ---------------------------------------------------------------------------
\* The ordering of Atom, Group, Spin and SpinSystem (spin_system.py:92-98,
\* 141-147, 194-200, 301-307).
\* ---------------------------------------------------------------------------

\* The characters of the names of the model in the order of their code
\* points, which is the order str.__lt__ compares by.
CodePoints == "'-0123456789?ABCDEFGHIJKLMNOPQRSTUVWXYZ"

Ord(c) == CHOOSE i \in 1..Len(CodePoints) : Char(CodePoints, i) = c

\* str.__lt__: the first differing character decides, a proper prefix is less.
RECURSIVE StrLessFrom(_, _, _)
StrLessFrom(a, b, i) ==
    IF i > Len(b) THEN FALSE
    ELSE IF i > Len(a) THEN TRUE
    ELSE IF Char(a, i) = Char(b, i) THEN StrLessFrom(a, b, i + 1)
    ELSE Ord(Char(a, i)) < Ord(Char(b, i))

StrLess(a, b) == StrLessFrom(a, b, 1)

\* Atom.__eq__ and Atom.__lt__ (spin_system.py:92-98)
Atom_eq(self, other) == self.name = other.name
Atom_lt(self, other) == StrLess(self.name, other.name)

\* Group.__eq__ (spin_system.py:141-142)
Group_eq(self, other) == self.name = other.name

\* Group.__lt__ (spin_system.py:144-147)
Group_lt(self, other) == self.number < other.number

\* Spin.__eq__ (spin_system.py:194-195)
Spin_eq(self, other) == self.name = other.name

\* Spin.__lt__ (spin_system.py:197-200): the tuples (group, atom) are
\* compared as Python compares tuples, the first pair of items that are not
\* == deciding by <.
Spin_lt(self, other) ==
    IF ~Group_eq(self.group, other.group)
    THEN Group_lt(self.group, other.group)
    ELSE IF ~Atom_eq(self.atom, other.atom)
    THEN Atom_lt(self.atom, other.atom)
    ELSE FALSE

\* SpinSystem.__eq__ (spin_system.py:301-302)
SpinSystem_eq(self, other) == self.name = other.name

\* tuple.__lt__ on two tuples of spins, from position k on: the first pair
\* of spins that are not == decides by <, a proper prefix is less.
RECURSIVE SpinsLessFrom(_, _, _)
SpinsLessFrom(a, b, k) ==
    IF k > Len(b) THEN FALSE
    ELSE IF k > Len(a) THEN TRUE
    ELSE IF Spin_eq(a[k], b[k]) THEN SpinsLessFrom(a, b, k + 1)
    ELSE Spin_lt(a[k], b[k])

\* SpinSystem.__lt__ (spin_system.py:304-307)
SpinSystem_lt(self, other) == SpinsLessFrom(self.spins, other.spins, 1)

\* The spin systems a spin system is compared with.
OrderLabels == {"", "?", "HN", "G23HN", "G23AHN", "GLY023-HN", "G23A-G23HN"}
OrderOthers == {SpinSystem(o) : o \in OrderLabels}

InitSpinOrder ==
    /\ MergeIdle /\ CestIdle /\ CpmgIdle /\ LaterIdle
    /\ label \in PairLabels \cup {""}
    /\ spin_system = SpinSystem(label)
    /\ ret = <<>>

\* spin_system < other, spin_system == other and other < spin_system.
CompareSystems ==
    \E other \in OrderOthers :
        /\ ret' = <<[op |-> "compare", kind |-> "SpinSystem",
                     a |-> spin_system.name, b |-> other.name,
                     value |-> <<SpinSystem_lt(spin_system, other),
                                 SpinSystem_eq(spin_system, other),
                                 SpinSystem_lt(other, spin_system)>>]>>
        /\ UNCHANGED <<label, spin_system, notSpin>>

\* The same three comparisons on a spin of spin_system and a spin of other.
CompareSpins ==
    \E other \in OrderOthers :
        \E j \in 1..Len(spin_system.spins), k \in 1..Len(other.spins) :
            LET a == spin_system.spins[j]
                b == other.spins[k]
            IN  /\ ret' = <<[op |-> "compare", kind |-> "Spin",
                             a |-> a.name, b |-> b.name,
                             value |-> <<Spin_lt(a, b), Spin_eq(a, b),
                                         Spin_lt(b, a)>>]>>
                /\ UNCHANGED <<label, spin_system, notSpin>>

\* The same three comparisons on a group of spin_system and a group of other.
CompareGroups ==
    \E other \in OrderOthers :
        \E j \in 1..Len(spin_system.groups), k \in 1..Len(other.groups) :
            LET a == spin_system.groups[j]
                b == other.groups[k]
            IN  /\ ret' = <<[op |-> "compare", kind |-> "Group",
                             a |-> a.name, b |-> b.name,
                             value |-> <<Group_lt(a, b), Group_eq(a, b),
                                         Group_lt(b, a)>>]>>
                /\ UNCHANGED <<label, spin_system, notSpin>>

NextSpinOrder == CompareSystems \/ CompareSpins \/ CompareGroups

SpecSpinOrder == InitSpinOrder /\ [][NextSpinOrder]_vars

\* Exactly one of the three answers is TRUE.
ExactlyOne(value) ==
    Cardinality({n \in 1..3 : value[n]}) = 1

\* C23: for any two Groups, two Spins or two SpinSystems a and b exactly one
\* of a < b, a == b, b < a holds.
C23_TotalOrder ==
    SpinOp = "compare" => ExactlyOne(ret[1].value)

\* What does hold at every level: a < b and b < a never hold together.
C23_Asymmetric ==
    SpinOp = "compare" => ~(ret[1].value[1] /\ ret[1].value[3])


\* ---------------------------------------------------------------------------
\* The alignment of a bootstrap replicate (cest.py:271-282).
\* ---------------------------------------------------------------------------

\* The ways of drawing the points of replicate from the original points in
\* non-decreasing index order: drawn[k] is the original index of position k.
DrawsOf(replicate) ==
    {drawn \in [1..Len(replicate.points) -> 1..Len(points)] :
        /\ \A j, k \in 1..Len(drawn) : j < k => drawn[j] <= drawn[k]
        /\ \A k \in 1..Len(drawn) : replicate.points[k] = points[drawn[k]]}

\* C22: after bootstrap the points, refs and mask of the replicate have the
\* same length, the points are in non-decreasing original-index order, and
\* the refs and mask flags of every position are those of the original point
\* drawn into it.
C22_BootstrapAligned ==
    LastOp = "bootstrap" =>
        LET replicate == out[1].data
        IN  /\ Len(replicate.refs) = Len(replicate.points)
            /\ Len(replicate.mask) = Len(replicate.points)
            /\ \E drawn \in DrawsOf(replicate) :
                  \A k \in 1..Len(drawn) :
                     /\ replicate.refs[k] = refs[drawn[k]]
                     /\ replicate.mask[k] = mask[drawn[k]]

\* What bootstrap does keep: the points are drawn in non-decreasing
\* original-index order from the used points.
C22_BootstrapSorted ==
    LastOp = "bootstrap" =>
        \E drawn \in DrawsOf(out[1].data) :
            \A k \in 1..Len(drawn) : mask[drawn[k]]


\* ---------------------------------------------------------------------------
\* The 'fit' command of main (__main__.py:168-217).  replicates holds the
\* arguments, the place main is at, every fit_write_plot call made (fits) and
\* the replicates of the loop (runs).
\* ---------------------------------------------------------------------------

\* A count large enough for the directory names to be padded.
PaddedCount == 10

\* args.bs and args.mc: <<>> when the option is not given, <<n>> for a count;
\* the padded count comes with one-point data only.
CountsFor(pts) ==
    {<<>>} \cup {<<n>> : n \in 1..MaxReplicates}
           \cup (IF Len(pts) = 1 THEN {<<PaddedCount>>} ELSE {})

\* args.out_dir if args.out_dir else './output' (__main__.py:183).
OutputDir == "./output"

\* The number of replicates (__main__.py:200).
ReplicateCount(bs, mc) == IF bs # <<>> THEN bs[1] ELSE mc[1]

\* A loop that asks for Monte Carlo first.
ReplicateKindMonteCarloFirst(bs, mc) == IF mc # <<>> THEN "mc" ELSE "bs"

\* The branch of the loop (__main__.py:206-209).
ReplicateKind(bs, mc) == IF bs # <<>> THEN "bs" ELSE "mc"

RECURSIVE Zeros(_)
Zeros(n) == IF n <= 0 THEN "" ELSE "0" \o Zeros(n - 1)

\* formatter_output_dir.format(index) (__main__.py:201-202, 212): index in
\* decimal, padded with zeros on the left to int(log10(n)) + 1 characters,
\* the number of digits of n.
FormatIndex(index, n) ==
    Zeros(Len(ToStr(n)) - Len(ToStr(index))) \o ToStr(index)

\* os.path.join(output_dir, name) (__main__.py:211-212).
PathJoin(dir, name) == dir \o "/" \o name

InitMain ==
    /\ MergeIdle /\ CestIdle /\ CpmgIdle /\ SpinIdle
    /\ CacheIdle /\ FitIdle
    /\ \E pts \in DataLists :
          \E bs \in CountsFor(pts), mc \in CountsFor(pts) :
             /\ heap = pts
             /\ dataset = [j \in 1..Len(pts) |-> j]
             /\ replicates = [bs |-> bs, mc |-> mc, pc |-> "fit",
                              par |-> "par", fits |-> <<>>, runs |-> <<>>]

\* __main__.py:188-198: without args.bs the measured data are fitted and par
\* is bound to the fitted parameters; then the loop is entered if asked for.
FitMeasured ==
    /\ replicates # <<>>
    /\ replicates.pc = "fit"
    /\ replicates' =
          [replicates EXCEPT
             !.fits = IF replicates.bs = <<>>
                      THEN Append(@, [data |-> dataset, par |-> replicates.par,
                                      output_dir |-> OutputDir])
                      ELSE @,
             !.par = IF replicates.bs = <<>> THEN "par_fit" ELSE @,
             !.pc = IF replicates.bs # <<>> \/ replicates.mc # <<>>
                    THEN "loop" ELSE "done"]
    /\ UNCHANGED <<notEnsemble, heap, dataset>>

\* The call of fit_write_plot for replicate index on data_index
\* (__main__.py:211-217).
FitReplicate(self, kind, index, data_index) ==
    LET output_dir_ ==
            PathJoin(OutputDir,
                     FormatIndex(index, ReplicateCount(self.bs, self.mc)))
    IN  [self EXCEPT
           !.fits = Append(@, [data |-> data_index, par |-> self.par,
                               output_dir |-> output_dir_]),
           !.runs = Append(@, [index |-> index, kind |-> kind,
                               data |-> data_index,
                               output_dir |-> output_dir_])]

\* One turn of the loop (__main__.py:204-217).
FitNext ==
    /\ replicates # <<>>
    /\ replicates.pc = "loop"
    /\ Len(replicates.runs) < ReplicateCount(replicates.bs, replicates.mc)
    /\ LET index == Len(replicates.runs) + 1
           kind == ReplicateKind(replicates.bs, replicates.mc)
       IN  \/ /\ kind = "bs"
              /\ \E data_index \in make_bootstrap_dataset(heap, dataset) :
                    replicates' =
                       FitReplicate(replicates, kind, index, data_index)
              /\ UNCHANGED heap
           \/ /\ kind = "mc"
              /\ \E noise \in [1..Len(dataset) -> NoiseValues] :
                    \E made \in {make_montecarlo_dataset(heap, dataset, noise)} :
                       /\ heap' = made.heap
                       /\ replicates' = FitReplicate(replicates, kind, index,
                                                     made.data_mc)
    /\ UNCHANGED <<notEnsemble, dataset>>

\* range(1, n + 1) is exhausted (__main__.py:204).
LoopEnds ==
    /\ replicates # <<>>
    /\ replicates.pc = "loop"
    /\ Len(replicates.runs) = ReplicateCount(replicates.bs, replicates.mc)
    /\ replicates' = [replicates EXCEPT !.pc = "done"]
    /\ UNCHANGED <<notEnsemble, heap, dataset>>

NextMain == FitMeasured \/ FitNext \/ LoopEnds

SpecMain == InitMain /\ [][NextMain]_vars

\* The first fit made is the fit of the measured data in the output directory.
ReferenceFitFirst ==
    /\ replicates.fits # <<>>
    /\ replicates.fits[1].data = dataset
    /\ replicates.fits[1].output_dir = OutputDir

\* C24: every Monte Carlo replicate is made after the fit of the measured
\* data; the replicates fitted are 1, 2, ... in this order, n of them when
\* main is done; each is written to the directory named by its index, which
\* no other fit writes to; and with a bootstrap count every replicate is a
\* bootstrap one and the measured data are never fitted.
C24_EnsembleOrder ==
    replicates # <<>> =>
        LET runs == replicates.runs
            fits == replicates.fits
            asked == replicates.bs # <<>> \/ replicates.mc # <<>>
        IN  /\ \A k \in 1..Len(runs) :
                  /\ runs[k].index = k
                  /\ runs[k].kind = "mc" =>
                        /\ ReferenceFitFirst
                        /\ fits[k + 1].data = runs[k].data
                  /\ ToInt(From(runs[k].output_dir, Len(OutputDir) + 2)) = k
                  /\ UpTo(runs[k].output_dir, Len(OutputDir) + 1)
                        = OutputDir \o "/"
                  /\ \A j \in 1..Len(fits) :
                        fits[j].output_dir = runs[k].output_dir
                           => fits[j].data = runs[k].data
                  /\ \A j \in 1..Len(runs) :
                        j # k => runs[j].output_dir # runs[k].output_dir
            /\ (asked /\ replicates.pc = "done") =>
                  Len(runs) = (IF replicates.bs # <<>> THEN replicates.bs[1]
                               ELSE replicates.mc[1])
            /\ ~asked => runs = <<>>
            /\ replicates.bs # <<>> =>
                  /\ \A k \in 1..Len(runs) : runs[k].kind = "bs"
                  /\ Len(fits) = Len(runs)
                  /\ \A j \in 1..Len(fits) : fits[j].output_dir # OutputDir
            /\ (replicates.bs = <<>> /\ replicates.pc # "fit") =>
                  ReferenceFitFirst

\* main is done with a Monte Carlo ensemble of the padded count: the
\* measured data were fitted first and replicate 1 went to ./output/01.
C24_Witness ==
    /\ replicates # <<>>
    /\ replicates.pc = "done"
    /\ replicates.bs = <<>>
    /\ replicates.mc = <<PaddedCount>>
    /\ Len(replicates.runs) = PaddedCount
    /\ replicates.runs[1].output_dir = "./output/01"
    /\ replicates.runs[1].kind = "mc"

=============================================================================
